---- MODULE Spec2Model ----
(***************************************************************************)
(* Model of the ".rundeck" action type (rundeck_action/action_types/       *)
(* rundeck.ts): one invocation of executor().  The executor triggers a     *)
(* Rundeck job, then either posts a Slack message (no dedupKey) or looks   *)
(* up a Pager Duty incident by dedupKey and adds a note to it.             *)
(*                                                                         *)
(* JavaScript values are modelled as follows.  Strings are TLA+ strings;   *)
(* the result of a template literal is the sequence of its pieces, so      *)
(* "the text contains x" is "x is one of the pieces".  undefined and null  *)
(* are the two distinguished values Undefined and Null.  Objects are       *)
(* functions from field names to values; a missing field is a name outside *)
(* the domain.  Response bodies are objects (possibly lacking the fields   *)
(* the executor reads).  An exception escaping executor() makes the        *)
(* returned promise reject: promise = "rejected".                          *)
(*                                                                         *)
(* Every remote call is two steps: the request is issued (it is recorded   *)
(* in calls and is in flight), and later the remote settles it (resolve or *)
(* reject), which runs the executor's code up to the next await or return. *)
(***************************************************************************)
EXTENDS Integers, Sequences, FiniteSets, TLC

\* ---------------------------------------------------------------- bounds
MaxIncidents == 2

\* ------------------------------------------------------- program constants
DefaultApiVersion == 24

\* ------------------------------------------------------------ JS values
Undefined == "<undefined>"
Null == "<null>"

Has(o, f) == f \in DOMAIN o
Get(o, f) == IF f \in DOMAIN o THEN o[f] ELSE Undefined

\* !v for a value that is a string, null or undefined
FalsyMut(v) == v = Undefined
Falsy(v) == v \in {Undefined, Null, ""}

\* `${n}` for the numbers that occur
NumStr(n) == CASE n = 24 -> "24"
               [] n = 200 -> "200"
               [] n = 201 -> "201"
               [] n = 404 -> "404"
               [] n = 429 -> "429"
               [] n = 500 -> "500"

\* `${v}` for a string, null or undefined
ToStr(v) == IF v = Undefined THEN "undefined"
            ELSE IF v = Null THEN "null" ELSE v

\* Object.assign({}, a, b)
Assign(a, b) == [k \in (DOMAIN a) \cup (DOMAIN b) |-> IF k \in DOMAIN b THEN b[k] ELSE a[k]]

EmptyObject == [k \in {} |-> ""]

\* ------------------------------------------------------- input domains
ActionIds == {"action-1", "action-2"}
DedupKeys == {Null, "", "key-1"}
WebhookUrls == {Null, "", "https://hooks.slack/T1"}
AlertNames == {Null, "cpu high"}
BaseUrls == {<<"https://rundeck.local">>, <<"https://rundeck.local", "/">>}
HeaderSets == {EmptyObject, [k \in {"X-Rundeck-Auth-Token"} |-> "caller-token"]}
IncidentIds == {"PD1", "PD2"}

\* bodies of a 2xx Rundeck response: with and without the permalink field
RundeckBodies == {[id |-> "1", permalink |-> "https://rundeck.local/exec/1"],
                  [id |-> "2", permalink |-> "https://rundeck.local/exec/2"],
                  [id |-> "3"]}

RundeckResponses == {[status |-> 200, statusText |-> "OK", data |-> b] : b \in RundeckBodies}

\* axios errors of the Rundeck call: non-2xx with a structured body, non-2xx
\* with a body lacking "message", transport failure without a response
RundeckErrors == {[message |-> <<"Request failed with status code ", "500">>,
                   response |-> [status |-> 500, data |-> [message |-> "job is disabled"]]],
                  [message |-> <<"Request failed with status code ", "404">>,
                   response |-> [status |-> 404, data |-> [error |-> "true"]]],
                  [message |-> <<"Network Error">>]}

\* an incident object, with or without an id
Incidents == {[id |-> i] : i \in IncidentIds} \cup {[title |-> "no id"]}

RECURSIVE SeqsUpTo(_, _)
SeqsUpTo(S, n) == IF n = 0 THEN {<<>>}
                  ELSE LET shorter == SeqsUpTo(S, n - 1)
                       IN shorter \cup {Append(s, e) : s \in {t \in shorter : Len(t) = n - 1}, e \in S}

\* bodies of a 2xx incident-list response: an incidents array, or a body
\* without the incidents field
PdListResponses == {[status |-> 200, data |-> [incidents |-> l]] : l \in SeqsUpTo(Incidents, MaxIncidents)}
                   \cup {[status |-> 200, data |-> [more |-> "false"]]}

\* axios errors of the Pager Duty calls
PdErrors == {[message |-> <<"Request failed with status code ", "404">>,
              response |-> [status |-> 404, data |-> [error |-> [message |-> "Not Found"]]]],
             [message |-> <<"Request failed with status code ", "429">>,
              response |-> [status |-> 429, data |-> [detail |-> "rate limited"]]],
             [message |-> <<"Network Error">>]}

PdNoteResponses == {[status |-> 201, data |-> [note |-> "created"]]}

\* errors thrown by IncomingWebhook.send: with or without an "error" field
SlackErrors == {[message |-> "An HTTP protocol error occurred: statusCode = 404",
                 error |-> "channel_not_found"],
                [message |-> "A request error occurred: ECONNREFUSED"]}

SlackResponses == {[text |-> "ok"]}

\* ----------------------------------------------------------------- state
VARIABLES pc, actionId, config, secrets, params,
          rundeckResult, executionLink, pdIncidentListResult, incidentId,
          promise, result, calls, inflight, delivered, log

vars == <<pc, actionId, config, secrets, params,
          rundeckResult, executionLink, pdIncidentListResult, incidentId,
          promise, result, calls, inflight, delivered, log>>

inputs == <<actionId, config, secrets, params>>

NoResult == [status |-> "none"]
NoResponse == [status |-> 0]

\* the pieces of a string, each converted as a template literal converts it
Interpolate(message) == [i \in DOMAIN message |-> ToStr(message[i])]

Contains(text, piece) == \E i \in DOMAIN text : text[i] = piece

\* ------------------------------------------------------- result builders
successResultMut(data) == [status |-> "ok", data |-> [f \in (DOMAIN data) \ {"permalink"} |-> data[f]]]
successResult(data) == [status |-> "ok", data |-> data]

errorPagerDutyProcessMut(id, message) ==
    [status |-> "error",
     message |-> <<"An error occurred while calling Pager Duty API in rundeck action: ">>
                 \o Interpolate(message)]
errorPagerDutyProcess(id, message) ==
    [status |-> "error",
     message |-> <<"An error occurred while calling Pager Duty API in rundeck action \"", ToStr(id), "\": ">>
                 \o Interpolate(message)]

errorSlackProcess(id, message) ==
    [status |-> "error",
     message |-> <<"Invalid Response: an error occurred in rundeck action \"", ToStr(id), "\": ">>
                 \o Interpolate(message)]

errorResultMut(id, message) == errorSlackProcess(id, message)
errorResult(id, message) ==
    [status |-> "error",
     message |-> <<"Invalid Response: an error occurred in rundeck action \"", ToStr(id),
                   "\"", " calling a rundeck job", ": ">>
                 \o Interpolate(message)]

\* the message of the misconfiguration error (line 117), in pieces
NeitherMessage == <<"Neither of ", "dedupKey", " nor ", "slackWebhookUrl",
                    " are provided, failed to send message to PagerDuty incident or slack channel.">>

\* the message of the empty-list error (line 171)
EmptyListMessage(dedupKey) == <<"Pager Duty incident list requested by dedupKey(incident_key), \"",
                                ToStr(dedupKey), "\", ", "is empty", ".">>

\* ------------------------------------------------------- request builders
\* rundeckBaseUrl.endsWith('/') ? rundeckBaseUrl.slice(0, -1) : rundeckBaseUrl
WithoutSlash(url) == IF Len(url) > 0 /\ url[Len(url)] = "/" THEN SubSeq(url, 1, Len(url) - 1) ELSE url

executeRundeckJob(headers, rundeckBaseUrl, rundeckApiToken, rundeckApiVersion, rundeckJobId, jobParams) ==
    [api |-> "rundeck", method |-> "POST",
     url |-> WithoutSlash(rundeckBaseUrl)
             \o <<"/api/", NumStr(rundeckApiVersion), "/job/", ToStr(rundeckJobId), "/executions">>,
     headers |-> Assign(headers, [k \in {"X-Rundeck-Auth-Token"} |-> rundeckApiToken]),
     body |-> [jobParams |-> jobParams]]

getPagerDutyIncidentList(headers, pdApiKey, dedupKey) ==
    [api |-> "pdList", method |-> "GET",
     url |-> <<"https://api.pagerduty.com/incidents?date_range=all&incident_key=", ToStr(dedupKey)>>,
     headers |-> Assign(headers, [k \in {"authorization"} |-> <<"Token token=", ToStr(pdApiKey)>>]),
     body |-> EmptyObject]

NoteContentMut(link) == <<"Rundeck job for the alert is triggered.">>
NoteContent(link) == <<"Rundeck job for the alert is triggered. Link: ", ToStr(link)>>

addNoteToPagerDutyIncident(headers, pdApiKey, id, link) ==
    [api |-> "pdNote", method |-> "POST",
     url |-> <<"https://api.pagerduty.com/incidents/", ToStr(id), "/notes">>,
     headers |-> Assign(headers, [k \in {"authorization"} |-> <<"Token token=", ToStr(pdApiKey)>>]),
     body |-> [note |-> [content |-> NoteContent(link)]]]

SlackAttachmentText(link) == <<"Rundeck job for the alert is triggered. Link: ", ToStr(link)>>

\* new IncomingWebhook(slackWebhookUrl).send(message)
webhookSend(slackWebhookUrl, alertName, link) ==
    [api |-> "slack", method |-> "POST",
     url |-> <<slackWebhookUrl>>,
     headers |-> EmptyObject,
     body |-> [text |-> alertName, attachments |-> <<[text |-> SlackAttachmentText(link)]>>]]

\* incidents.pop(): the element removed and the array left behind
PopValueMut(l) == l[1]
PopValue(l) == l[Len(l)]
PopRest(l) == SubSeq(l, 1, Len(l) - 1)

\* !incidents.length
ListIsEmptyMut(l) == FALSE
ListIsEmpty(l) == Len(l) = 0

\* await: the awaited call is no longer in flight when the executor resumes
SettledMut(fl, api) == fl
Settled(fl, api) == fl \ {api}

\* ------------------------------------------------------------------ Init
Init ==
    /\ pc = "start"
    /\ actionId \in ActionIds
    /\ config \in [rundeckBaseUrl : BaseUrls, rundeckApiVersion : {DefaultApiVersion},
                   rundeckJobId : {"job-7"}, headers : HeaderSets]
    /\ secrets \in [rundeckApiToken : {"rd-token"}, pdApiKey : {Null, "pd-key"},
                    slackWebhookUrl : WebhookUrls]
    /\ params \in [dedupKey : DedupKeys, alertName : AlertNames, jobParams : {Undefined, "options"}]
    /\ rundeckResult = NoResponse
    /\ executionLink = Undefined
    /\ pdIncidentListResult = NoResponse
    /\ incidentId = Undefined
    /\ promise = "pending"
    /\ result = NoResult
    /\ calls = <<>>
    /\ inflight = {}
    /\ delivered = <<>>
    /\ log = <<>>

\* ------------------------------------------------------- action helpers
Issue(req, fl) == /\ calls' = Append(calls, req)
                  /\ inflight' = fl \cup {req.api}

Return(r) == /\ promise' = "fulfilled"
             /\ result' = r
             /\ pc' = "done"

\* an exception that no catch block of executor handles
Throw == /\ promise' = "rejected"
         /\ result' = NoResult
         /\ pc' = "done"

Deliver(api, how, value) == delivered' = Append(delivered, [api |-> api, settled |-> how, value |-> value])

Logged(level, text) == log' = Append(log, [level |-> level, text |-> text])

\* --------------------------------------------------------------- actions
\* lines 60-100: destructure the options, call executeRundeckJob and await
CallRundeck ==
    /\ pc = "start"
    /\ Issue(executeRundeckJob(config.headers, config.rundeckBaseUrl, secrets.rundeckApiToken,
                               config.rundeckApiVersion, config.rundeckJobId, params.jobParams),
             inflight)
    /\ pc' = "awaitRundeck"
    /\ UNCHANGED <<inputs, rundeckResult, executionLink, pdIncidentListResult, incidentId,
                   promise, result, delivered, log>>

\* lines 102-108: the Rundeck call rejected
RundeckRejects ==
    /\ pc = "awaitRundeck"
    /\ \E err \in RundeckErrors :
         LET message == IF Has(err, "response") THEN <<Get(err.response.data, "message")>>
                        ELSE err.message
         IN /\ Deliver("rundeck", "rejected", err)
            /\ Logged("warn", <<"Error on ", actionId, " rundeck action: ">> \o Interpolate(message))
            /\ Return(errorResult(actionId, message))
    /\ inflight' = Settled(inflight, "rundeck")
    /\ UNCHANGED <<inputs, rundeckResult, executionLink, pdIncidentListResult, incidentId, calls>>

\* lines 100, 110-158: the Rundeck call resolved; run up to the next await
\* or return
RundeckResolves ==
    /\ pc = "awaitRundeck"
    /\ \E resp \in RundeckResponses :
         LET link == Get(resp.data, "permalink")
             fl == Settled(inflight, "rundeck")
         IN /\ Deliver("rundeck", "resolved", resp)
            /\ rundeckResult' = resp
            /\ executionLink' = link
            /\ IF Falsy(params.dedupKey)
               THEN IF Falsy(secrets.slackWebhookUrl)
                    THEN /\ Return(errorSlackProcess(actionId, NeitherMessage))
                         /\ calls' = calls
                         /\ inflight' = fl
                    ELSE /\ Issue(webhookSend(secrets.slackWebhookUrl, params.alertName, link), fl)
                         /\ pc' = "awaitSlack"
                         /\ UNCHANGED <<promise, result>>
               ELSE /\ Issue(getPagerDutyIncidentList(config.headers, secrets.pdApiKey, params.dedupKey), fl)
                    /\ pc' = "awaitPdList"
                    /\ UNCHANGED <<promise, result>>
    /\ UNCHANGED <<inputs, pdIncidentListResult, incidentId, log>>

\* lines 132-135, 145: webhook.send resolved
SlackResolves ==
    /\ pc = "awaitSlack"
    /\ \E resp \in SlackResponses : Deliver("slack", "resolved", resp)
    /\ Logged("info", <<"Sending message to Slack succeeded in rundeck action \"", actionId, "\".">>)
    /\ Return(successResult(rundeckResult.data))
    /\ inflight' = Settled(inflight, "slack")
    /\ UNCHANGED <<inputs, rundeckResult, executionLink, pdIncidentListResult, incidentId, calls>>

\* lines 137-142: webhook.send rejected
SlackRejects ==
    /\ pc = "awaitSlack"
    /\ \E err \in SlackErrors :
         LET message == <<"an error occurred while calling slack webhook: ", Get(err, "error")>>
         IN /\ Deliver("slack", "rejected", err)
            /\ Logged("warn", <<"Error on ", actionId, " rundeck action: ">> \o Interpolate(message))
            /\ Return(errorSlackProcess(actionId, message))
    /\ inflight' = Settled(inflight, "slack")
    /\ UNCHANGED <<inputs, rundeckResult, executionLink, pdIncidentListResult, incidentId, calls>>

\* lines 158-160, 169-188: the incident-list call resolved; run up to the
\* next await, return or uncaught exception
PdListResolves ==
    /\ pc = "awaitPdList"
    /\ \E resp \in PdListResponses :
         LET fl == Settled(inflight, "pdList")
             listed == <<"Retrieving Pager Duty incident list succeeded in rundeck action \"", actionId, "\".">>
         IN /\ Deliver("pdList", "resolved", resp)
            /\ IF ~Has(resp.data, "incidents")
               THEN \* line 170: reading .length of undefined
                    /\ Throw
                    /\ pdIncidentListResult' = resp
                    /\ Logged("info", listed)
                    /\ UNCHANGED <<incidentId, calls>>
                    /\ inflight' = fl
               ELSE IF ListIsEmpty(resp.data.incidents)
               THEN LET message == EmptyListMessage(params.dedupKey)
                    IN /\ Return(errorPagerDutyProcess(actionId, message))
                       /\ pdIncidentListResult' = resp
                       /\ log' = log \o <<[level |-> "info", text |-> listed],
                                          [level |-> "warn",
                                           text |-> <<"error on ", actionId, " rundeck action: ">>
                                                    \o Interpolate(message)]>>
                       /\ UNCHANGED <<incidentId, calls>>
                       /\ inflight' = fl
               ELSE IF Len(resp.data.incidents) = 0
               THEN \* line 177: pop() of an empty array is undefined; reading .id of it
                    /\ Throw
                    /\ pdIncidentListResult' = resp
                    /\ Logged("info", listed)
                    /\ UNCHANGED <<incidentId, calls>>
                    /\ inflight' = fl
               ELSE LET id == Get(PopValue(resp.data.incidents), "id")
                    IN /\ pdIncidentListResult' =
                            [resp EXCEPT !.data = [incidents |-> PopRest(resp.data.incidents)]]
                       /\ incidentId' = id
                       /\ Logged("info", listed)
                       /\ Issue(addNoteToPagerDutyIncident(config.headers, secrets.pdApiKey, id, executionLink), fl)
                       /\ pc' = "awaitPdNote"
                       /\ UNCHANGED <<promise, result>>
    /\ UNCHANGED <<inputs, rundeckResult, executionLink>>

\* lines 162-167: the incident-list call rejected
PdListRejects ==
    /\ pc = "awaitPdList"
    /\ \E err \in PdErrors :
         /\ Deliver("pdList", "rejected", err)
         /\ IF Has(err, "response") /\ ~Has(err.response.data, "error")
            THEN \* line 164: reading .message of undefined, inside the catch block
                 /\ Throw
                 /\ log' = log
            ELSE LET message == IF Has(err, "response")
                                THEN <<NumStr(err.response.status), " ",
                                       Get(err.response.data.error, "message")>>
                                ELSE err.message
                 IN /\ Logged("warn", <<"error on ", actionId,
                                        " rundeck action: an error occurred while calling pager duty API: ">>
                                      \o Interpolate(message))
                    /\ Return(errorPagerDutyProcess(actionId, message))
    /\ inflight' = Settled(inflight, "pdList")
    /\ UNCHANGED <<inputs, rundeckResult, executionLink, pdIncidentListResult, incidentId, calls>>

\* lines 188-190, 199-201: the add-note call resolved
PdNoteResolves ==
    /\ pc = "awaitPdNote"
    /\ \E resp \in PdNoteResponses : Deliver("pdNote", "resolved", resp)
    /\ log' = log \o <<[level |-> "info",
                        text |-> <<"Calling pagerduty \"create a note API\" step succeeded in rundeck action \"",
                                   actionId, "\"">>],
                       [level |-> "info",
                        text |-> <<"response from rundeck action \"", actionId, "\": [HTTP ",
                                   NumStr(rundeckResult.status), "] ", rundeckResult.statusText>>]>>
    /\ Return(successResult(rundeckResult.data))
    /\ inflight' = Settled(inflight, "pdNote")
    /\ UNCHANGED <<inputs, rundeckResult, executionLink, pdIncidentListResult, incidentId, calls>>

\* lines 192-197: the add-note call rejected
PdNoteRejects ==
    /\ pc = "awaitPdNote"
    /\ \E err \in PdErrors :
         /\ Deliver("pdNote", "rejected", err)
         /\ IF Has(err, "response") /\ ~Has(err.response.data, "error")
            THEN \* line 194: reading .message of undefined, inside the catch block
                 /\ Throw
                 /\ log' = log
            ELSE LET message == IF Has(err, "response")
                                THEN <<NumStr(err.response.status), " ",
                                       Get(err.response.data.error, "message")>>
                                ELSE err.message
                 IN /\ Logged("warn", <<"error on ", actionId,
                                        " rundeck action: an error occurred while calling pager duty API: ">>
                                      \o Interpolate(message))
                    \* line 196 passes err.message, not the message built above
                    /\ Return(errorPagerDutyProcess(actionId, err.message))
    /\ inflight' = Settled(inflight, "pdNote")
    /\ UNCHANGED <<inputs, rundeckResult, executionLink, pdIncidentListResult, incidentId, calls>>

Next == \/ CallRundeck
        \/ RundeckResolves
        \/ RundeckRejects
        \/ SlackResolves
        \/ SlackRejects
        \/ PdListResolves
        \/ PdListRejects
        \/ PdNoteResolves
        \/ PdNoteRejects

Spec == Init /\ [][Next]_vars

\* ------------------------------------------------- history predicates
\* what the remotes delivered and which requests were issued in this invocation
Settlements(api, how) == {i \in DOMAIN delivered : delivered[i].api = api /\ delivered[i].settled = how}
CallsTo(api) == {i \in DOMAIN calls : calls[i].api = api}

JobFailed == Settlements("rundeck", "rejected") # {}
JobSucceeded == Settlements("rundeck", "resolved") # {}
JobBody == delivered[CHOOSE i \in Settlements("rundeck", "resolved") : TRUE].value.data
ListedIncidents == delivered[CHOOSE i \in Settlements("pdList", "resolved") : TRUE].value.data.incidents
ListDelivered == /\ Settlements("pdList", "resolved") # {}
                 /\ Has(delivered[CHOOSE i \in Settlements("pdList", "resolved") : TRUE].value.data, "incidents")
FinalNotifySucceeded == Settlements("slack", "resolved") # {} \/ Settlements("pdNote", "resolved") # {}
DedupKeyAbsent == params.dedupKey \in {Null, ""}
NoWebhook == secrets.slackWebhookUrl \in {Null, ""}

\* ---------------------------------------------------------------- claims

\* C1: executor never throws: every invocation that ends, ends with the
\* promise fulfilled by a result of status ok or error.  (Violated: a Pager
\* Duty response without the expected fields raises a TypeError that no
\* catch block handles.)
C1_NeverThrows ==
    /\ promise # "rejected"
    /\ (pc = "done" => result.status \in {"ok", "error"})

\* C2: if the job-trigger call fails, no incident-list, note-post or chat
\* call is made and the result is an error whose message says it came from
\* calling a (rundeck) job.
C2_JobFailureStops ==
    JobFailed =>
        /\ Len(calls) = 1 /\ calls[1].api = "rundeck"
        /\ promise = "fulfilled"
        /\ result.status = "error"
        /\ Contains(result.message, " calling a rundeck job")

C2_Witness ==
    /\ JobFailed /\ pc = "done"
    /\ \E i \in Settlements("rundeck", "rejected") : Has(delivered[i].value, "response")

\* C3: job triggered, no dedupKey and no slackWebhookUrl: the result is an
\* error naming both dedupKey and slackWebhookUrl, and the job trigger is the
\* only remote call of the invocation.
C3_Misconfigured ==
    (JobSucceeded /\ DedupKeyAbsent /\ NoWebhook) =>
        /\ promise = "fulfilled"
        /\ result.status = "error"
        /\ Contains(result.message, "dedupKey")
        /\ Contains(result.message, "slackWebhookUrl")
        /\ Len(calls) = 1 /\ calls[1].api = "rundeck"
        /\ Len(delivered) = 1

C3_Witness == JobSucceeded /\ DedupKeyAbsent /\ NoWebhook /\ pc = "done"

\* C4: when the final notification step succeeds the result is ok with the
\* job-trigger response body as data, and ok is returned in no other case.
C4_OkIffNotified ==
    /\ FinalNotifySucceeded =>
          /\ promise = "fulfilled"
          /\ result.status = "ok"
          /\ result.data = JobBody
    /\ result.status = "ok" => FinalNotifySucceeded

C4_Witness ==
    /\ Settlements("pdNote", "resolved") # {}
    /\ result.status = "ok"
    /\ Has(result.data, "permalink")

\* C5: dedupKey present, job triggered and the incident list is empty: the
\* result is an error mentioning "is empty" and no note-post call is made.
C5_EmptyList ==
    (~DedupKeyAbsent /\ JobSucceeded /\ ListDelivered /\ ListedIncidents = <<>>) =>
        /\ promise = "fulfilled"
        /\ result.status = "error"
        /\ Contains(result.message, "is empty")
        /\ CallsTo("pdNote") = {}

C5_Witness == ~DedupKeyAbsent /\ JobSucceeded /\ ListDelivered /\ ListedIncidents = <<>> /\ pc = "done"

\* C6: whenever a remote call fails with a non-2xx response carrying a
\* structured error body, the structured detail appears in the message of the
\* returned error (for the Pager Duty calls: the status and error.message).
\* (Violated: the note-post catch block returns the generic err.message.)
C6_StructuredDetailReported ==
    \A i \in DOMAIN delivered :
        LET d == delivered[i] IN
        /\ (d.api = "rundeck" /\ d.settled = "rejected" /\ Has(d.value, "response")
               /\ Has(d.value.response.data, "message"))
             => (result.status = "error" /\ Contains(result.message, d.value.response.data.message))
        /\ (d.api \in {"pdList", "pdNote"} /\ d.settled = "rejected" /\ Has(d.value, "response")
               /\ Has(d.value.response.data, "error"))
             => /\ result.status = "error"
                /\ Contains(result.message, NumStr(d.value.response.status))
                /\ Contains(result.message, d.value.response.data.error.message)
        /\ (d.api = "slack" /\ d.settled = "rejected" /\ Has(d.value, "error"))
             => (result.status = "error" /\ Contains(result.message, d.value.error))

\* C7 as stated: at most two remote calls per invocation, at most one in
\* flight, each settled before the next is issued.  (Violated: the incident
\* path makes three calls.)
C7_AtMostTwoCalls ==
    /\ Len(calls) <= 2
    /\ Cardinality(inflight) <= 1
    /\ Len(delivered) >= Len(calls) - 1

\* C7 amended: at most three remote calls per invocation (job trigger,
\* incident list, note post; two on the chat path), at most one in flight,
\* each settled before the next is issued.
C7_AtMostThreeSequentialCalls ==
    /\ Len(calls) <= 3
    /\ (CallsTo("slack") # {} => Len(calls) <= 2)
    /\ Cardinality(inflight) <= 1
    /\ Len(delivered) >= Len(calls) - 1
    /\ \A i \in DOMAIN delivered : i <= Len(calls) /\ delivered[i].api = calls[i].api
    /\ Cardinality(inflight) = Len(calls) - Len(delivered)

C7_Witness == Len(calls) = 3 /\ Len(delivered) = 3 /\ pc = "done"

\* C8: every error result carries the caller's actionId in its message.
C8_ErrorNamesAction ==
    result.status = "error" => Contains(result.message, actionId)

C8_Witness ==
    /\ result.status = "error"
    /\ Settlements("pdNote", "rejected") # {}

\* C9: the note is posted to the last element of the incident list as the
\* remote returned it, and to no other incident.
C9_LastIncident ==
    /\ Cardinality(CallsTo("pdNote")) <= 1
    /\ \A i \in CallsTo("pdNote") :
          /\ ListDelivered
          /\ Len(ListedIncidents) > 0
          /\ calls[i].url = <<"https://api.pagerduty.com/incidents/",
                              ToStr(Get(ListedIncidents[Len(ListedIncidents)], "id")),
                              "/notes">>

C9_Witness ==
    /\ CallsTo("pdNote") # {}
    /\ ListDelivered
    /\ Len(ListedIncidents) = 2
    /\ ListedIncidents[1] = [id |-> "PD1"]
    /\ ListedIncidents[2] = [id |-> "PD2"]

\* C10: the text sent downstream embeds the permalink of the job response;
\* without a permalink the call is still made, with "undefined" in its place,
\* and the outcome is decided by the downstream call alone.
C10_LinkEmbedded ==
    /\ \A i \in CallsTo("slack") :
          /\ Len(calls[i].body.attachments) = 1
          /\ IF Has(JobBody, "permalink")
             THEN Contains(calls[i].body.attachments[1].text, JobBody.permalink)
             ELSE Contains(calls[i].body.attachments[1].text, "undefined")
    /\ \A i \in CallsTo("pdNote") :
          IF Has(JobBody, "permalink")
          THEN Contains(calls[i].body.note.content, JobBody.permalink)
          ELSE Contains(calls[i].body.note.content, "undefined")
    /\ (JobSucceeded /\ ~Has(JobBody, "permalink")) =>
          /\ (DedupKeyAbsent /\ ~NoWebhook) => CallsTo("slack") # {}
          /\ (~DedupKeyAbsent /\ ListDelivered /\ Len(ListedIncidents) > 0) => CallsTo("pdNote") # {}
          /\ FinalNotifySucceeded => result.status = "ok"

C10_Witness ==
    /\ JobSucceeded /\ ~Has(JobBody, "permalink")
    /\ Settlements("pdNote", "resolved") # {}
    /\ result.status = "ok"
====
